---- MODULE Spec2Model ----
(***************************************************************************)
(* GlucoSwap: the conversion-and-history state engine of the two screens,  *)
(* app/(tabs)/index.native.tsx (React Native, AsyncStorage) and the web    *)
(* screen GlucoSwapScreen.web.tsx (localStorage).                          *)
(*                                                                         *)
(* One action is one event-loop turn: an event handler (or the completion  *)
(* of an asynchronous storage call) together with the re-render and the    *)
(* effects that React runs after it, before the next event is delivered.   *)
(*                                                                         *)
(* Numbers are IEEE doubles in the source.  They are modelled as exact     *)
(* decimal rationals (-1)^neg * (n/d) * 10^e, plus NaN, +/-Infinity and    *)
(* null (what JSON.stringify writes for a non-finite number); rounding of  *)
(* the last bits of a double is abstracted, the range of a double in       *)
(* parseFloat is kept.                                                     *)
(***************************************************************************)
EXTENDS Integers, Sequences, FiniteSets, TLC

VARIABLES
    platform,          \* "native" | "web": which of the two screens runs
    inputValue,        \* useState<string>('') : the text of the input field
    selectedUnit,      \* useState<Unit>('mg/dL')
    history,           \* useState<HistoryItem[]>([]) (any JS value at run time)
    isHistoryLoading,  \* useState<boolean>(true)
    slot,              \* the persisted slot HISTORY_STORAGE_KEY
    loadPending,       \* the load effect has not finished (native: getItem in flight)
    pending,           \* native: AsyncStorage.setItem calls in flight, in issue order
    dialog,            \* native: the Alert on screen: "none" | "result" | "confirm"
    crashed,           \* a render threw: the screen is gone
    now,               \* the latest value Date.now() returned (the clock is monotonic)
    nConv,             \* number of conversions added so far (bounded by budget)
    budget,            \* how many conversions a behaviour may add, and how many
                       \* storage writes may be in flight at once
    faults,            \* number of storage calls that have failed so far
    appended,          \* history: conversions added since a load that ended empty
    last               \* history: the last event, with what it did

vars == <<platform, inputValue, selectedUnit, history, isHistoryLoading, slot,
          loadPending, pending, dialog, crashed, now, nConv, budget, faults,
          appended, last>>

----------------------------------------------------------------------------
(* Program constants *)

MAX_HISTORY_ITEMS_DISPLAYED == 100
MAX_INPUT_LENGTH == 5
MIN_POINTS_FOR_CHART == 2
MAX_CHART_LABELS == 6
\* CONVERSION_FACTOR = 18.0182 = CF_NUM / 10^CF_DECIMALS
CF_NUM == 180182
CF_DECIMALS == 4

(* Bounds of the model *)

MaxConverts == 2      \* conversions added in a behaviour of Spec
MaxFill == 101        \* conversions added in a behaviour of SpecFill
MaxPending == 1       \* native: storage writes in flight at once
MaxRace == 2          \* the same in a behaviour of SpecRace
MaxRaceConverts == 3  \* conversions added in a behaviour of SpecRace
MaxFaults == 1        \* storage calls that fail in a behaviour
SessionStart == 200   \* Date.now() when the screen is constructed

Min(a, b) == IF a < b THEN a ELSE b
Max(a, b) == IF a > b THEN a ELSE b

----------------------------------------------------------------------------
(* Strings are sequences of one-character strings *)

Digits == {"0", "1", "2", "3", "4", "5", "6", "7", "8", "9"}

DigitVal(c) ==
    CASE c = "0" -> 0 [] c = "1" -> 1 [] c = "2" -> 2 [] c = "3" -> 3
      [] c = "4" -> 4 [] c = "5" -> 5 [] c = "6" -> 6 [] c = "7" -> 7
      [] c = "8" -> 8 [] c = "9" -> 9

DigitChar(v) ==
    CASE v = 0 -> "0" [] v = 1 -> "1" [] v = 2 -> "2" [] v = 3 -> "3"
      [] v = 4 -> "4" [] v = 5 -> "5" [] v = 6 -> "6" [] v = 7 -> "7"
      [] v = 8 -> "8" [] v = 9 -> "9"

RECURSIVE Pow10(_)
Pow10(k) == IF k <= 0 THEN 1 ELSE 10 * Pow10(k - 1)

RECURSIVE NumDigits(_)
NumDigits(m) == IF m < 10 THEN 1 ELSE 1 + NumDigits(m \div 10)

\* Number.prototype.toString of a non-negative integer (Date.now().toString())
RECURSIVE ToDecString(_)
ToDecString(m) ==
    IF m < 10 THEN <<DigitChar(m)>>
    ELSE Append(ToDecString(m \div 10), DigitChar(m % 10))

\* the length of the run of decimal digits of s that starts at position i
RECURSIVE DigitRun(_, _)
DigitRun(s, i) ==
    IF i <= Len(s) /\ s[i] \in Digits THEN 1 + DigitRun(s, i + 1) ELSE 0

\* the value of the k digits of s that start at position i
RECURSIVE DigitsValue(_, _, _)
DigitsValue(s, i, k) ==
    IF k = 0 THEN 0
    ELSE 10 * DigitsValue(s, i, k - 1) + DigitVal(s[i + k - 1])

RECURSIVE SpaceRun(_, _)
SpaceRun(s, i) ==
    IF i <= Len(s) /\ s[i] = " " THEN 1 + SpaceRun(s, i + 1) ELSE 0

HasPrefixAt(s, i, p) ==
    /\ i + Len(p) - 1 <= Len(s)
    /\ \A j \in 1..Len(p) : s[i + j - 1] = p[j]

----------------------------------------------------------------------------
(* JavaScript numbers *)

NaN == [k |-> "nan", neg |-> FALSE, n |-> 0, d |-> 1, e |-> 0]
Infinity == [k |-> "inf", neg |-> FALSE, n |-> 0, d |-> 1, e |-> 0]
NegInfinity == [k |-> "inf", neg |-> TRUE, n |-> 0, d |-> 1, e |-> 0]
JsNull == [k |-> "null", neg |-> FALSE, n |-> 0, d |-> 1, e |-> 0]
Zero == [k |-> "fin", neg |-> FALSE, n |-> 0, d |-> 1, e |-> 0]

Fin(neg, n, d, e) == [k |-> "fin", neg |-> neg, n |-> n, d |-> d, e |-> e]

\* isNaN(x)
IsNaN(x) == x.k = "nan"

\* Number.isFinite(x)
IsFinite(x) == x.k = "fin"

\* x > 0
GreaterThanZero(x) ==
    \/ x.k = "inf" /\ ~x.neg
    \/ x.k = "fin" /\ ~x.neg /\ x.n > 0

\* the double nearest to (-1)^neg * m * 10^e (m a decimal mantissa of at most
\* MAX_INPUT_LENGTH digits): beyond the largest double, 1.7976931348623157e308,
\* the result is Infinity; below the smallest subnormal it is 0
DoubleOf(neg, m, e) ==
    LET mag == NumDigits(m) + e          \* m * 10^e < 10^mag
        lead == IF NumDigits(m) <= 5 THEN m * Pow10(5 - NumDigits(m))
                ELSE m \div Pow10(NumDigits(m) - 5)
    IN  IF m = 0 THEN Zero
        ELSE IF mag > 309 \/ (mag = 309 /\ lead >= 17977)
             THEN (IF neg THEN NegInfinity ELSE Infinity)
        ELSE IF mag < -323 THEN Zero
        ELSE Fin(neg, m, 1, e)

RECURSIVE GCD(_, _)
GCD(a, b) == IF b = 0 THEN a ELSE GCD(b, a % b)

\* x * CONVERSION_FACTOR
TimesFactor(x) ==
    IF x.k # "fin" \/ x.n = 0 THEN x
    ELSE LET g == GCD(x.d, CF_NUM)
         IN  Fin(x.neg, x.n * (CF_NUM \div g), x.d \div g, x.e - CF_DECIMALS)

\* x / CONVERSION_FACTOR
OverFactor(x) ==
    IF x.k # "fin" \/ x.n = 0 THEN x
    ELSE LET g == GCD(x.n, CF_NUM)
         IN  Fin(x.neg, x.n \div g, x.d * (CF_NUM \div g), x.e + CF_DECIMALS)

\* parseFloat(s): leading blanks, a sign, then the longest prefix that is a
\* decimal literal (digits, a fraction, an exponent) or the word Infinity
parseFloat(s) ==
    LET i0 == 1 + SpaceRun(s, 1)
        hasSign == i0 <= Len(s) /\ s[i0] \in {"+", "-"}
        neg == hasSign /\ s[i0] = "-"
        i1 == IF hasSign THEN i0 + 1 ELSE i0
        nInt == DigitRun(s, i1)
        i2 == i1 + nInt
        hasDot == i2 <= Len(s) /\ s[i2] = "."
        nFrac == IF hasDot THEN DigitRun(s, i2 + 1) ELSE 0
        i3 == IF hasDot THEN i2 + 1 + nFrac ELSE i2
        hasE == i3 <= Len(s) /\ s[i3] \in {"e", "E"}
        eSign == hasE /\ i3 + 1 <= Len(s) /\ s[i3 + 1] \in {"+", "-"}
        eNeg == eSign /\ s[i3 + 1] = "-"
        i4 == IF eSign THEN i3 + 2 ELSE i3 + 1
        nExp == IF hasE THEN DigitRun(s, i4) ELSE 0
        expAbs == DigitsValue(s, i4, nExp)
        expVal == IF eNeg THEN 0 - expAbs ELSE expAbs
        mant == DigitsValue(s, i1, nInt) * Pow10(nFrac) + DigitsValue(s, i2 + 1, nFrac)
    IN  IF nInt + nFrac = 0
        THEN IF HasPrefixAt(s, i1, <<"I", "n", "f", "i", "n", "i", "t", "y">>)
             THEN (IF neg THEN NegInfinity ELSE Infinity)
             ELSE NaN
        ELSE DoubleOf(neg, mant, expVal - nFrac)

----------------------------------------------------------------------------
(* JavaScript values held by `history` and JSON documents *)

Arr(items) == [t |-> "arr", items |-> items, s |-> <<>>]
Str(s) == [t |-> "str", items |-> <<>>, s |-> s]
Other(t) == [t |-> t, items |-> <<>>, s |-> <<>>]

\* value.length
Length(v) == IF v.t = "arr" THEN Len(v.items) ELSE Len(v.s)

\* interface HistoryItem
HistoryItem(id, timestamp, mgdlValue, mmolValue) ==
    [id |-> id, timestamp |-> timestamp, mgdlValue |-> mgdlValue, mmolValue |-> mmolValue]

\* Array.prototype.slice / String.prototype.slice (0, k); other values have none
HasSlice(v) == v.t \in {"arr", "str"}

Slice(v, k) ==
    IF v.t = "arr" THEN Arr(SubSeq(v.items, 1, Min(k, Len(v.items))))
    ELSE Str(SubSeq(v.s, 1, Min(k, Len(v.s))))

\* Array.isArray(v)
IsArray(v) == v.t = "arr"

\* [...v]: the elements of an array; an empty string spreads to nothing (a
\* non-empty string never reaches a spread: the render that follows it throws)
Spread(v) == IF v.t = "arr" THEN v.items ELSE <<>>

\* JSON.stringify of a number: a non-finite number is written as null
StringifyNumber(x) == IF x.k \in {"inf", "nan"} THEN JsNull ELSE x

StringifyItem(it) ==
    HistoryItem(it.id, it.timestamp,
                StringifyNumber(it.mgdlValue), StringifyNumber(it.mmolValue))

(* The text in the slot is modelled by the JSON document it denotes, or as  *)
(* text that is no JSON at all.                                             *)
Absent == [k |-> "absent", doc |-> Other("null")]
Garbage == [k |-> "garbage", doc |-> Other("null")]
JsonText(doc) == [k |-> "json", doc |-> doc]

\* JSON.stringify(v)
JSONstringify(v) ==
    IF v.t = "arr"
    THEN JsonText(Arr([i \in 1..Len(v.items) |-> StringifyItem(v.items[i])]))
    ELSE JsonText(v)

\* JSON.parse(text): throws a SyntaxError on text that is no JSON
ParseThrows(text) == text.k = "garbage"
JSONparse(text) == text.doc

----------------------------------------------------------------------------
(* Inputs of the model *)

Units == {"mg/dL", "mmol/L"}
Platforms == {"native", "web"}

In120 == <<"1", "2", "0">>
InOverflow == <<"1", "e", "9", "9", "9">>

\* texts typed into the field, each of at most MAX_INPUT_LENGTH characters
Inputs == { <<>>, In120, InOverflow }

\* the values Date.now() may return once it has returned t: the clock does
\* not go back, and the screen is up for a millisecond or two
ClockAfter(t) == t..Max(t, SessionStart + 1)

\* faulty variant: the factor is applied the wrong way round
ConvertMgdl_Divides(value, unit) ==
    IF unit = "mg/dL" THEN value ELSE OverFactor(value)

\* mgdlValue and mmolValue of handleConvert, from the value and selectedUnit
ConvertMgdl(value, unit) ==
    IF unit = "mg/dL" THEN value ELSE TimesFactor(value)

ConvertMmol(value, unit) ==
    IF unit = "mg/dL" THEN OverFactor(value) ELSE value

\* a list this program wrote in an earlier session: len items, newest first,
\* created before this session started
StoredList(len) ==
    [i \in 1..len |->
        HistoryItem(ToDecString(SessionStart - i), SessionStart - i,
                    ConvertMgdl(parseFloat(In120), "mg/dL"),
                    ConvertMmol(parseFloat(In120), "mg/dL"))]

StoredLengths == {0, MAX_HISTORY_ITEMS_DISPLAYED + 1}

\* what the slot may hold when the screen is constructed
WellFormedSlots == {JsonText(Arr(StoredList(len))) : len \in StoredLengths}

CorruptSlots ==
    { JsonText(Str(<<"n", "o">>)), JsonText(Str(<<>>)), JsonText(Other("obj")),
      JsonText(Other("null")), Garbage }

InitialSlots == {Absent} \cup WellFormedSlots \cup CorruptSlots

----------------------------------------------------------------------------
(* Pure parts of the screen *)

MAX_HISTORY_ITEMS_RENDERED == 20

\* isInputValid: !isNaN(parseFloat(inputValue)) && parseFloat(inputValue) > 0
isInputValid(s) == ~IsNaN(parseFloat(s)) /\ GreaterThanZero(parseFloat(s))

\* newEntry of handleConvert: id from one Date.now(), timestamp from the next
NewEntry(value, unit, idTime, stampTime) ==
    HistoryItem(ToDecString(idTime), stampTime,
                ConvertMgdl(value, unit), ConvertMmol(value, unit))

\* faulty variants: the new entry is kept without the slice; the new entry is
\* put last
Prepended_NoSlice(newEntry, prevHistory) ==
    Arr(<<newEntry>> \o Spread(prevHistory))

Prepended_AtTail(newEntry, prevHistory) ==
    Slice(Arr(Append(Spread(prevHistory), newEntry)), MAX_HISTORY_ITEMS_DISPLAYED)

\* prevHistory => [newEntry, ...prevHistory].slice(0, MAX_HISTORY_ITEMS_DISPLAYED)
Prepended(newEntry, prevHistory) ==
    Slice(Arr(<<newEntry>> \o Spread(prevHistory)), MAX_HISTORY_ITEMS_DISPLAYED)

\* faulty variant: the stored list is taken whole
LoadedValue_NoSlice(parsedHistory) == parsedHistory

\* parsedHistory.slice(0, MAX_HISTORY_ITEMS_DISPLAYED) of the load
LoadedValue(parsedHistory) == Slice(parsedHistory, MAX_HISTORY_ITEMS_DISPLAYED)

\* JSON.stringify(history.slice(0, MAX_HISTORY_ITEMS_DISPLAYED)) of the save effect
SaveText(h) == JSONstringify(Slice(h, MAX_HISTORY_ITEMS_DISPLAYED))

\* the render throws a TypeError: history.slice(0, 20).map on a string that is
\* not empty, or item.mgdlValue.toFixed on a null value
RenderThrows(h, loading) ==
    /\ ~loading
    /\ Length(h) > 0
    /\ \/ h.t # "arr"
       \/ \E i \in 1..Min(MAX_HISTORY_ITEMS_RENDERED, Len(h.items)) :
              "null" \in {h.items[i].mgdlValue.k, h.items[i].mmolValue.k}

----------------------------------------------------------------------------
(* The chart series of the native screen (chartKitData) *)

\* milliseconds in a day: new Date(timestamp) counts milliseconds
MS_PER_DAY == 86400000

\* toLocaleDateString(undefined, {month: 'short', day: 'numeric'}): the text
\* names the calendar day of the timestamp and nothing finer; it is stood
\* for by the number of that day
formatTimestampForChart(timestamp) == timestamp \div MS_PER_DAY

\* [...history].sort((a, b) => a.timestamp - b.timestamp): ascending, and
\* stable (items of equal timestamp keep their order); rank[i] is the place
\* the item at i gets.  A list in strictly descending order comes out
\* reversed, which is computed directly.
sortedHistory(items) ==
    LET n == Len(items)
        Before(j, i) ==
            \/ items[j].timestamp < items[i].timestamp
            \/ items[j].timestamp = items[i].timestamp /\ j < i
        rank == [i \in 1..n |-> Cardinality({j \in 1..n : Before(j, i)}) + 1]
    IN  IF \A i \in 1..(n - 1) : items[i].timestamp > items[i + 1].timestamp
        THEN [p \in 1..n |-> items[n + 1 - p]]
        ELSE [p \in 1..n |-> items[CHOOSE i \in 1..n : rank[i] = p]]

chartYUnit(unit) == IF unit = "mg/dL" THEN "mmol/L" ELSE "mg/dL"

yValue(item, yUnit) == IF yUnit = "mg/dL" THEN item.mgdlValue ELSE item.mmolValue

\* step = Math.max(1, Math.floor(sortedHistory.length / MAX_CHART_LABELS))
ChartStep(n) == Max(1, n \div MAX_CHART_LABELS)

\* faulty variant: the stride alone decides, the end points are not forced
Included_StrideOnly(index, n) == index % ChartStep(n) = 0

\* the test of the forEach: the item at index (from 0) of n gets an entry
Included(index, n) ==
    \/ index = 0 \/ index = n - 1 \/ index % ChartStep(n) = 0
    \/ n <= MAX_CHART_LABELS

\* return null
NoChart == [labels |-> <<>>, data |-> <<>>, from |-> <<>>, none |-> TRUE]

\* chartKitData: labels and data are the two arrays of the result; from is
\* history, the index in sortedHistory that each entry was taken from
chartKitData(h, unit) ==
    IF Length(h) < MIN_POINTS_FOR_CHART THEN NoChart
    ELSE
    LET sorted == sortedHistory(Spread(h))
        n == Len(sorted)
        yUnit == chartYUnit(unit)
        Test(index) == Included(index, n)
        picked == SelectSeq([i \in 1..n |-> i - 1], Test)
        labels0 == [k \in 1..Len(picked) |->
                       formatTimestampForChart(sorted[picked[k] + 1].timestamp)]
        data0 == [k \in 1..Len(picked) |-> yValue(sorted[picked[k] + 1], yUnit)]
        nonEmpty == Len(labels0) > 0 /\ Len(data0) > 0
        firstHistoryLabel == formatTimestampForChart(sorted[1].timestamp)
        addFirst == nonEmpty /\ labels0[1] # firstHistoryLabel
        labels1 == IF addFirst THEN <<firstHistoryLabel>> \o labels0 ELSE labels0
        data1 == IF addFirst THEN <<yValue(sorted[1], yUnit)>> \o data0 ELSE data0
        from1 == IF addFirst THEN <<0>> \o picked ELSE picked
        lastHistoryLabel == formatTimestampForChart(sorted[n].timestamp)
        addLast == nonEmpty /\ labels1[Len(labels1)] # lastHistoryLabel
        labels2 == IF addLast THEN Append(labels1, lastHistoryLabel) ELSE labels1
        data2 == IF addLast THEN Append(data1, yValue(sorted[n], yUnit)) ELSE data1
        from2 == IF addLast THEN Append(from1, n - 1) ELSE from1
        finalLabels == SubSeq(labels2, 1, Min(Len(labels2), Len(data2)))
    IN  IF Len(finalLabels) < MIN_POINTS_FOR_CHART THEN NoChart
        ELSE [labels |-> finalLabels, data |-> data2, from |-> from2,
              none |-> FALSE]

----------------------------------------------------------------------------
(* The last event *)

Ev(op) ==
    [op |-> op, arg |-> "", ok |-> TRUE, persisted |-> FALSE, valid |-> FALSE]

InitScreen ==
    /\ platform \in Platforms
    /\ inputValue = <<>>
    /\ selectedUnit = "mg/dL"
    /\ history = Arr(<<>>)
    /\ isHistoryLoading = TRUE
    /\ loadPending = TRUE
    /\ pending = <<>>
    /\ dialog = "none"
    /\ crashed = FALSE
    /\ nConv = 0
    /\ appended = -1
    /\ last = Ev("init")

Init ==
    /\ InitScreen
    /\ now = SessionStart
    /\ slot \in InitialSlots
    /\ budget = [converts |-> MaxConverts, pending |-> MaxPending]
    /\ faults = 0

\* the user can press a control: no Alert is up; on the web the load effect
\* has run (React flushes effects before it delivers an event)
UserCanAct ==
    /\ ~crashed
    /\ dialog = "none"
    /\ platform = "web" => ~loadPending

\* a storage call that is made may fail while the fault bound allows it; a
\* call that is not made does not fail
Fault(made, ok) == IF made /\ ~ok THEN 1 ELSE 0
Outcome(made, ok) == made \/ ok

\* the save effect after a render in which history or isHistoryLoading changed:
\* the web screen writes at once (and the write may throw), the native screen
\* starts an AsyncStorage.setItem
SaveEffect(h, loading, slotBefore, writeOk) ==
    IF loading
    THEN slot' = slotBefore /\ pending' = pending
    ELSE IF platform = "web"
    THEN /\ slot' = (IF writeOk THEN SaveText(h) ELSE slotBefore)
         /\ pending' = pending
    ELSE /\ slot' = slotBefore
         /\ pending' = Append(pending, SaveText(h))

\* faulty variant: a storage call that fails undoes the state change
AfterStorageCall_RollsBack(h, before, ok) == IF ok THEN h ELSE before

\* the catch blocks of the save effect and of handleClearHistory log and
\* alert, they set no state: the history after the storage calls of a handler
\* is h, the one the handler set, whether or not the calls succeeded
AfterStorageCall(h, before, ok) == h

\* the save effect writes within the step (web, loaded)
WritesNow(loading) == ~loading /\ platform = "web"

----------------------------------------------------------------------------
(* The load effect *)

\* faulty variant: the flag is cleared at the end of the try block only
LoadingAfter_NoFinally(caught) == caught

\* finally { setIsHistoryLoading(false) }: the flag after the load, whether
\* or not the catch block ran
LoadingAfter(caught) == FALSE

\* native: AsyncStorage.getItem settles, then the rest of loadHistory runs
LoadHistoryNative ==
    /\ platform = "native" /\ loadPending /\ ~crashed
    /\ \E readOk \in BOOLEAN :
         LET caught == \/ ~readOk
                       \/ slot.k # "absent" /\ ParseThrows(slot)
                       \/ slot.k # "absent" /\ ~HasSlice(JSONparse(slot))
             h == IF caught THEN history
                  ELSE IF slot.k = "absent" THEN Arr(<<>>)
                  ELSE LoadedValue(JSONparse(slot))
             loading == LoadingAfter(caught)
         IN  /\ faults + Fault(TRUE, readOk) <= MaxFaults
             /\ faults' = faults + Fault(TRUE, readOk)
             /\ history' = h
             /\ isHistoryLoading' = loading
             /\ loadPending' = FALSE
             /\ crashed' = RenderThrows(h, loading)
             /\ IF RenderThrows(h, loading)
                THEN UNCHANGED <<slot, pending>>
                ELSE SaveEffect(h, loading, slot, TRUE)
             /\ appended' = IF Length(h) = 0 THEN 0 ELSE -1
             /\ last' = [Ev("load") EXCEPT !.ok = ~caught]
    /\ UNCHANGED <<platform, inputValue, selectedUnit, dialog, now, nConv, budget>>

\* web: the whole effect runs in one turn, localStorage is synchronous
LoadHistoryWeb ==
    /\ platform = "web" /\ loadPending /\ ~crashed
    /\ \E readOk, removeOk, writeOk \in BOOLEAN :
         LET present == readOk /\ slot.k # "absent"
             parsed == present /\ ~ParseThrows(slot)
             isList == parsed /\ IsArray(JSONparse(slot))
             removes == parsed /\ ~isList
             caught == ~readOk \/ (present /\ ~parsed) \/ (removes /\ ~removeOk)
             h == IF isList THEN LoadedValue(JSONparse(slot)) ELSE Arr(<<>>)
             slotMid == IF removes /\ removeOk THEN Absent ELSE slot
             loading == LoadingAfter(caught)
             writes == WritesNow(loading) /\ ~RenderThrows(h, loading)
             failed == Fault(TRUE, readOk) + Fault(removes, removeOk)
                         + Fault(writes, writeOk)
         IN  /\ Outcome(removes, removeOk) /\ Outcome(writes, writeOk)
             /\ faults + failed <= MaxFaults
             /\ faults' = faults + failed
             /\ history' = h
             /\ isHistoryLoading' = loading
             /\ loadPending' = FALSE
             /\ crashed' = RenderThrows(h, loading)
             /\ IF RenderThrows(h, loading)
                THEN slot' = slotMid /\ pending' = pending
                ELSE SaveEffect(h, loading, slotMid, writeOk)
             /\ appended' = IF Length(h) = 0 THEN 0 ELSE -1
             /\ last' = [Ev("load") EXCEPT !.ok = ~caught,
                                           !.persisted = writes /\ writeOk]
    /\ UNCHANGED <<platform, inputValue, selectedUnit, dialog, now, nConv, budget>>

----------------------------------------------------------------------------
(* The handlers *)

\* onChangeText={setInputValue}
SetInput(s) ==
    /\ UserCanAct
    /\ s # inputValue
    /\ inputValue' = s
    /\ last' = Ev("ui")
    /\ UNCHANGED <<platform, selectedUnit, history, isHistoryLoading, slot,
                   loadPending, pending, dialog, crashed, now, nConv, budget,
                   faults, appended>>

\* faulty variant: the input field is left as it is
handleUnitChange_KeepsInput(newUnit) ==
    /\ UserCanAct
    /\ selectedUnit' = newUnit
    /\ inputValue' = inputValue
    /\ last' = [Ev("unit") EXCEPT !.arg = newUnit]
    /\ UNCHANGED <<platform, history, isHistoryLoading, slot, loadPending,
                   pending, dialog, crashed, now, nConv, budget, faults, appended>>

\* the unit buttons: setSelectedUnit(newUnit); setInputValue('')
handleUnitChange(newUnit) ==
    /\ UserCanAct
    /\ selectedUnit' = newUnit
    /\ inputValue' = <<>>
    /\ last' = [Ev("unit") EXCEPT !.arg = newUnit]
    /\ UNCHANGED <<platform, history, isHistoryLoading, slot, loadPending,
                   pending, dialog, crashed, now, nConv, budget, faults, appended>>

\* handleConvert with an input that is not valid: the early return
ConvertRejected ==
    /\ UserCanAct
    /\ ~isInputValid(inputValue)
    /\ last' = Ev("convert")
    /\ UNCHANGED <<platform, inputValue, selectedUnit, history, isHistoryLoading,
                   slot, loadPending, pending, dialog, crashed, now, nConv,
                   budget, faults, appended>>

\* handleConvert with a valid input, the re-render and the save effect;
\* idTime and stampTime are what the two calls of Date.now() return
ConvertAcceptedAt(idTime, stampTime) ==
    /\ UserCanAct
    /\ isInputValid(inputValue)
    /\ nConv < budget.converts
    /\ Len(pending) < budget.pending
    /\ now <= idTime /\ idTime <= stampTime
    /\ \E writeOk \in BOOLEAN :
         LET value == parseFloat(inputValue)
             newEntry == NewEntry(value, selectedUnit, idTime, stampTime)
             h == Prepended(newEntry, history)
             writes == WritesNow(isHistoryLoading)
         IN  /\ Outcome(writes, writeOk)
             /\ faults + Fault(writes, writeOk) <= MaxFaults
             /\ faults' = faults + Fault(writes, writeOk)
             /\ now' = stampTime
             /\ history' = AfterStorageCall(h, history, writeOk)
             /\ SaveEffect(h, isHistoryLoading, slot, writeOk)
             /\ last' = [Ev("convert") EXCEPT
                            !.valid = TRUE, !.ok = writeOk,
                            !.persisted = writes /\ writeOk]
    /\ IF platform = "web"
       THEN inputValue' = <<>> /\ dialog' = dialog
       ELSE inputValue' = inputValue /\ dialog' = "result"
    /\ nConv' = nConv + 1
    /\ appended' = IF appended >= 0 THEN appended + 1 ELSE appended
    /\ UNCHANGED <<platform, selectedUnit, isHistoryLoading, loadPending,
                   crashed, budget>>

ConvertAccepted ==
    \E idTime, stampTime \in ClockAfter(now) : ConvertAcceptedAt(idTime, stampTime)

\* native: OK of the 'Conversion Result' Alert
ResultOK ==
    /\ ~crashed /\ dialog = "result"
    /\ inputValue' = <<>>
    /\ dialog' = "none"
    /\ last' = Ev("ui")
    /\ UNCHANGED <<platform, selectedUnit, history, isHistoryLoading, slot,
                   loadPending, pending, crashed, now, nConv, budget, faults,
                   appended>>

\* the Clear button is rendered only with a loaded, non-empty history
ClearVisible == UserCanAct /\ ~isHistoryLoading /\ Length(history) > 0

\* the state changes of a confirmed clear, the re-render and the save effect
\* (the web handler also calls localStorage.removeItem)
ClearConfirmed ==
    /\ \E removeOk, writeOk \in BOOLEAN :
         LET web == platform = "web"
             slotMid == IF web /\ removeOk THEN Absent ELSE slot
             failed == Fault(web, removeOk) + Fault(web, writeOk)
         IN  /\ Outcome(web, removeOk) /\ Outcome(web, writeOk)
             /\ faults + failed <= MaxFaults
             /\ faults' = faults + failed
             /\ SaveEffect(Arr(<<>>), isHistoryLoading, slotMid, writeOk)
             /\ history' = AfterStorageCall(Arr(<<>>), history, removeOk /\ writeOk)
             /\ last' = [Ev("clear") EXCEPT
                            !.ok = removeOk /\ writeOk,
                            !.persisted = web /\ removeOk /\ writeOk]
    /\ inputValue' = <<>>
    /\ dialog' = "none"
    /\ appended' = -1
    /\ UNCHANGED <<platform, selectedUnit, isHistoryLoading, loadPending,
                   crashed, now, nConv, budget>>

\* faulty variant: the answer is not looked at
ClearCancelled_Clears ==
    /\ dialog' = "none"
    /\ last' = Ev("clearCancel")
    /\ history' = Arr(<<>>)
    /\ inputValue' = <<>>
    /\ UNCHANGED <<platform, selectedUnit, isHistoryLoading, slot, loadPending,
                   pending, crashed, now, nConv, budget, faults, appended>>

\* the confirmation is answered no (web), cancelled or dismissed (native)
ClearCancelled ==
    /\ dialog' = "none"
    /\ last' = Ev("clearCancel")
    /\ UNCHANGED <<platform, inputValue, selectedUnit, history, isHistoryLoading,
                   slot, loadPending, pending, crashed, now, nConv, budget,
                   faults, appended>>

\* web: handleClearHistory, window.confirm answered within the handler
ClearWebConfirmed == platform = "web" /\ ClearVisible /\ ClearConfirmed

ClearWebCancelled == platform = "web" /\ ClearVisible /\ ClearCancelled

\* native: handleClearHistory puts up the 'Confirm Delete' Alert
ClearNativeAsk ==
    /\ platform = "native" /\ ClearVisible
    /\ dialog' = "confirm"
    /\ last' = Ev("ui")
    /\ UNCHANGED <<platform, inputValue, selectedUnit, history, isHistoryLoading,
                   slot, loadPending, pending, crashed, now, nConv, budget,
                   faults, appended>>

\* native: the Delete button of the Alert
ConfirmDelete ==
    /\ platform = "native" /\ ~crashed /\ dialog = "confirm"
    /\ Len(pending) < budget.pending
    /\ ClearConfirmed

\* native: the Cancel button of the Alert, or its dismissal
ConfirmCancel ==
    /\ platform = "native" /\ ~crashed /\ dialog = "confirm"
    /\ ClearCancelled

----------------------------------------------------------------------------
(* The environment *)

\* native: one AsyncStorage.setItem in flight settles; the order in which
\* writes settle is not fixed by the storage interface
SaveSettles(i) ==
    /\ i \in 1..Len(pending)
    /\ \E writeOk \in BOOLEAN :
         /\ faults + Fault(TRUE, writeOk) <= MaxFaults
         /\ faults' = faults + Fault(TRUE, writeOk)
         /\ slot' = (IF writeOk THEN pending[i] ELSE slot)
         /\ last' = [Ev("saved") EXCEPT
                        !.ok = writeOk,
                        !.persisted = writeOk /\ pending[i] = SaveText(history)]
    /\ pending' = SubSeq(pending, 1, i - 1) \o SubSeq(pending, i + 1, Len(pending))
    /\ UNCHANGED <<platform, inputValue, selectedUnit, history, isHistoryLoading,
                   loadPending, dialog, crashed, now, nConv, budget, appended>>

Next ==
    \/ LoadHistoryNative
    \/ LoadHistoryWeb
    \/ \E s \in Inputs : SetInput(s)
    \/ \E u \in Units : handleUnitChange(u)
    \/ ConvertRejected
    \/ ConvertAccepted
    \/ ResultOK
    \/ ClearWebConfirmed
    \/ ClearWebCancelled
    \/ ClearNativeAsk
    \/ ConfirmDelete
    \/ ConfirmCancel
    \/ \E i \in 1..MaxPending : SaveSettles(i)

Spec == Init /\ [][Next]_vars

\* the load effect runs after the first render, and a getItem that was
\* started completes or is rejected
SpecLive ==
    Spec /\ WF_vars(LoadHistoryNative) /\ WF_vars(LoadHistoryWeb)

----------------------------------------------------------------------------
(* Filling the history: an empty slot, one input, a conversion every       *)
(* millisecond, no storage fault                                           *)

InitFill ==
    /\ InitScreen
    /\ now = SessionStart
    /\ slot = Absent
    /\ budget = [converts |-> MaxFill, pending |-> MaxPending]
    /\ faults = MaxFaults

NextFill ==
    \/ LoadHistoryNative
    \/ LoadHistoryWeb
    \/ SetInput(In120)
    \/ ConvertAcceptedAt(now + 1, now + 1)
    \/ ResultOK
    \/ \E i \in 1..MaxPending : SaveSettles(i)

SpecFill == InitFill /\ [][NextFill]_vars

----------------------------------------------------------------------------
(* Saves in flight together: an empty slot, one input, a conversion every  *)
(* millisecond, no storage fault, and up to MaxRace writes in flight       *)

InitRace ==
    /\ InitScreen
    /\ now = SessionStart
    /\ slot = Absent
    /\ budget = [converts |-> MaxRaceConverts, pending |-> MaxRace]
    /\ faults = MaxFaults

NextRace ==
    \/ LoadHistoryNative
    \/ LoadHistoryWeb
    \/ SetInput(In120)
    \/ ConvertAcceptedAt(now + 1, now + 1)
    \/ ResultOK
    \/ \E i \in 1..MaxRace : SaveSettles(i)

SpecRace == InitRace /\ [][NextRace]_vars

----------------------------------------------------------------------------
(* Properties *)

\* C1: in every reachable state the in-memory history holds at most
\* MAX_HISTORY_ITEMS_DISPLAYED items, whatever was stored (a list of 101
\* items included) and whatever was converted or cleared since.
C1_HistoryBounded == Length(history) <= MAX_HISTORY_ITEMS_DISPLAYED

\* a conversion was added to the 100 items kept of a stored list, while the
\* slot still holds the 101 items that were stored
C1_Witness ==
    /\ last.op = "convert" /\ last.valid
    /\ Length(history) = MAX_HISTORY_ITEMS_DISPLAYED
    /\ slot.k = "json" /\ Length(slot.doc) = MAX_HISTORY_ITEMS_DISPLAYED + 1

\* C2: from an empty history whose load has completed, with no clear in
\* between, N conversions leave exactly min(N, 100) items; a conversion added
\* to a full list keeps the newest 99 of the old items in their order behind
\* the new one, so exactly the oldest item is dropped.
C2_LengthIsMin ==
    appended >= 0 => Length(history) = Min(appended, MAX_HISTORY_ITEMS_DISPLAYED)

C2_EvictsOldest ==
    (/\ last'.op = "convert" /\ last'.valid
     /\ Length(history) = MAX_HISTORY_ITEMS_DISPLAYED)
    => /\ Length(history') = MAX_HISTORY_ITEMS_DISPLAYED
       /\ SubSeq(history'.items, 2, MAX_HISTORY_ITEMS_DISPLAYED)
            = SubSeq(history.items, 1, MAX_HISTORY_ITEMS_DISPLAYED - 1)
       /\ history'.items[1] # history.items[MAX_HISTORY_ITEMS_DISPLAYED]

C2_AppendCount == [](C2_LengthIsMin) /\ [][C2_EvictsOldest]_vars

\* the 101st conversion since the empty load was added
C2_Witness ==
    /\ appended = MAX_HISTORY_ITEMS_DISPLAYED + 1
    /\ Length(history) = MAX_HISTORY_ITEMS_DISPLAYED
    /\ last.op = "convert"

\* C3: the history is ordered newest first: for positions i < j the timestamp
\* of item i is at least that of item j (the clock does not go back, the
\* stored list was written by this program).
C3_NewestFirst ==
    IsArray(history) =>
        \A i \in 1..Len(history.items) : \A j \in i + 1..Len(history.items) :
            history.items[i].timestamp >= history.items[j].timestamp

\* two conversions a millisecond apart stand before the items of a stored list
C3_Witness ==
    /\ IsArray(history) /\ Len(history.items) = MAX_HISTORY_ITEMS_DISPLAYED
    /\ history.items[1].timestamp > history.items[2].timestamp
    /\ history.items[2].timestamp >= SessionStart
    /\ history.items[3].timestamp < SessionStart

\* C4: after every append or confirmed clear whose persistence step has
\* completed successfully (here: with no storage fault at all), the text in
\* the slot parses to a list equal to the in-memory history.
C4_SlotEqualsHistory ==
    (last.op \in {"convert", "clear", "saved"} /\ last.persisted /\ faults = 0)
    => /\ slot.k = "json"
       /\ JSONparse(slot) = history

\* C5: when the slot holds a value that is present but is no well-formed list,
\* the load (with no storage fault) ends with an empty history, the slot
\* erased and no exception out of the load or the render after it.
C5_CorruptSlotRecovered ==
    [][(loadPending /\ ~loadPending' /\ slot \in CorruptSlots /\ faults' = faults)
       => (Length(history') = 0 /\ slot' = Absent /\ ~crashed')]_vars

\* the items of h that a conversion of this session created
Converted(h) ==
    IF IsArray(h)
    THEN {i \in 1..Len(h.items) : h.items[i].timestamp >= SessionStart}
    ELSE {}

\* C6: an item that convert added stays in the history, unchanged, until a
\* confirmed clear or its eviction as the oldest of 100 items; no other event
\* removes or alters it.
C6_ConvertedItemsStay ==
    [][\A i \in Converted(history) :
          \/ /\ IsArray(history')
             /\ \E j \in 1..Len(history'.items) : history'.items[j] = history.items[i]
          \/ last'.op = "clear"
          \/ /\ i = MAX_HISTORY_ITEMS_DISPLAYED
             /\ last'.op = "convert" /\ last'.valid]_vars

\* C7: after a confirmed clear whose storage calls succeed, once its effects
\* have run (on the web they run within the step), the history is empty and
\* the slot holds no value.
C7_ClearRemovesSlot ==
    (last.op = "clear" /\ faults = 0 /\ platform = "web")
    => (Length(history) = 0 /\ slot = Absent)

\* C8: when the confirmation of a clear is put up, and when it is cancelled or
\* dismissed, the history, the input field, the selected unit and the slot
\* are left as they were.
C8_CancelChangesNothing ==
    [][(last'.op = "clearCancel" \/ (dialog = "none" /\ dialog' = "confirm"))
       => UNCHANGED <<history, inputValue, selectedUnit, slot>>]_vars

\* a clear was cancelled with items in the history and text in the field
C8_Witness ==
    /\ last.op = "clearCancel"
    /\ Length(history) > 0
    /\ inputValue # <<>>

\* C9: no item with a non-finite or non-positive value ever enters the history
\* (convert is a no-op unless the input denotes a finite number above 0).
C9_OnlyFinitePositive ==
    IsArray(history) =>
        \A i \in 1..Len(history.items) :
            /\ IsFinite(history.items[i].mgdlValue)
            /\ GreaterThanZero(history.items[i].mgdlValue)
            /\ IsFinite(history.items[i].mmolValue)
            /\ GreaterThanZero(history.items[i].mmolValue)

C11_UnitChangeResetsInput ==
    [][last'.op = "unit"
       => /\ inputValue' = <<>>
          /\ selectedUnit' = last'.arg
          /\ history' = history]_vars

\* the mmol/L button was pressed with items in the history
C11_Witness ==
    /\ last.op = "unit" /\ last.arg = "mmol/L"
    /\ selectedUnit = "mmol/L" /\ inputValue = <<>>
    /\ Length(history) > 0

\* C12: no two items of the history have the same id, however close together
\* in time the conversions are (the ids of the stored list are distinct).
C12_UniqueIds ==
    IsArray(history) =>
        \A i \in 1..Len(history.items) : \A j \in i + 1..Len(history.items) :
            history.items[i].id # history.items[j].id

\* C13: on the native screen, once the load has finished and no save is in
\* flight, the slot holds the text of the current history, in whatever order
\* the writes that were in flight together settled.
C13_SettledSlotIsCurrent ==
    (platform = "native" /\ ~loadPending /\ ~crashed /\ pending = <<>>)
    => /\ slot.k = "json"
       /\ JSONparse(slot) = history

\* C14: while isHistoryLoading is true a conversion adds nothing to the
\* history (shown for an input that is a finite number): no append takes
\* effect before the initial load has completed.
C14_NoAppendWhileLoading ==
    [][(/\ isHistoryLoading
        /\ last'.op = "convert"
        /\ IsFinite(parseFloat(inputValue)))
       => history' = history]_vars

\* C15: isHistoryLoading is true from construction, the load effect leaves it
\* false under every outcome (slot absent, a list, a corrupt value, a read
\* that is rejected), it does become false, and once false it is never true
\* again.
C15_LoadingLifecycle ==
    /\ isHistoryLoading = TRUE
    /\ [][/\ (loadPending /\ ~loadPending') => ~isHistoryLoading'
          /\ ~isHistoryLoading => ~isHistoryLoading']_vars
    /\ <>(~isHistoryLoading)

\* a load whose catch block ran has cleared the flag
C15_Witness ==
    /\ last.op = "load" /\ ~last.ok
    /\ ~isHistoryLoading

\* C16: a storage call that fails rolls nothing back: after a conversion
\* whose write failed the history is the old one with the new item in front
\* (cut to 100), after a confirmed clear whose removal or write failed it is
\* empty, and a native write that is rejected later leaves it as it is.
C16_FailureKeepsMutation ==
    [][/\ (last'.op = "convert" /\ last'.valid /\ ~last'.ok)
           => /\ Length(history') > 0
              /\ history' = Prepended(history'.items[1], history)
              /\ history'.items[1].mgdlValue
                   = ConvertMgdl(parseFloat(inputValue), selectedUnit)
              /\ history'.items[1].mmolValue
                   = ConvertMmol(parseFloat(inputValue), selectedUnit)
       /\ (last'.op = "clear" /\ ~last'.ok) => history' = Arr(<<>>)
       /\ (last'.op = "saved" /\ ~last'.ok) => history' = history]_vars

\* the write after a conversion failed: the item is in the history, the slot
\* still holds the empty list
C16_Witness ==
    /\ last.op = "convert" /\ last.valid /\ ~last.ok
    /\ Length(history) = 1
    /\ slot.k = "json" /\ Length(slot.doc) = 0

\* the chart of the current render of the native screen
Chart == chartKitData(history, selectedUnit)

\* the native screen has a series to draw; it is looked at in the render that
\* follows a conversion, the one event that makes the history longer
ChartDrawn ==
    /\ platform = "native" /\ last.op = "convert"
    /\ IsArray(history) /\ ~Chart.none

\* C17: on the native screen, for a history of 2 to 100 items the series has
\* at most MAX_CHART_LABELS + 2 labels.
C17_LabelsCapped ==
    ChartDrawn => Len(Chart.labels) <= MAX_CHART_LABELS + 2

\* C18: on the native screen, for a history of 2 items or more, the series
\* has as many labels as data values, its first entry is the earliest item of
\* the history and its last entry the latest, and its entries are items of
\* the history in ascending order of time, none of them twice.
C18_SeriesEndpointsAndOrder ==
    (platform = "native" /\ last.op = "convert" /\ IsArray(history)
        /\ Length(history) >= MIN_POINTS_FOR_CHART)
    => LET c == Chart
           sorted == sortedHistory(history.items)
           n == Len(sorted)
           m == Len(c.data)
       IN  /\ ~c.none
           /\ Len(c.labels) = m /\ Len(c.from) = m
           /\ \A i \in 1..n :
                 /\ sorted[1].timestamp <= history.items[i].timestamp
                 /\ sorted[n].timestamp >= history.items[i].timestamp
           /\ c.from[1] = 0 /\ c.from[m] = n - 1
           /\ \A k \in 1..m :
                 /\ c.from[k] \in 0..(n - 1)
                 /\ c.data[k] = yValue(sorted[c.from[k] + 1], chartYUnit(selectedUnit))
                 /\ c.labels[k] = formatTimestampForChart(sorted[c.from[k] + 1].timestamp)
                 /\ k < m => /\ c.from[k] < c.from[k + 1]
                             /\ sorted[c.from[k] + 1].timestamp
                                  <= sorted[c.from[k + 1] + 1].timestamp

\* a series thinned to fewer entries than the 50 items of the history
C18_Witness ==
    /\ ChartDrawn
    /\ Length(history) = 50
    /\ Len(Chart.data) < 50
    /\ Chart.from[1] = 0 /\ Chart.from[Len(Chart.from)] = 49

\* C19: on the native screen, for a history of N >= 2 items, the data series
\* of the chart holds the value of every item: it has N values.
C19_AllValuesCharted ==
    ChartDrawn => Len(Chart.data) = Length(history)

\* the slot holds text whose load can fail only by a rejected read or by a
\* parse error: a list this program stored, or text that is no JSON
ReadCanFail ==
    /\ slot.k # "absent"
    /\ ParseThrows(slot) \/ IsArray(JSONparse(slot))

\* C20: a load that fails (the read is rejected, or the text does not parse)
\* leaves the slot as it is: neither the load step nor the write that the
\* load itself started replaces what is stored.
C20_FailedLoadKeepsSlot ==
    [][/\ (loadPending /\ ~loadPending' /\ ~last'.ok /\ ReadCanFail)
           => slot' = slot
       /\ (last.op = "load" /\ ~last.ok /\ last'.op = "saved" /\ ReadCanFail)
           => slot' = slot]_vars

====
